---- MODULE Spec2Model ----
(***************************************************************************)
(* Model of src/src/props.c: the property correlations for water and       *)
(* aqueous NaCl brine (psat_h2o, ThermCond_Maxwell, SatConc, LatentHeat,   *)
(* Convert_w2m, ThermCond_aqNaCl, ConvertX, ActivityCoefficient_h2o,       *)
(* WaterVaporPressure_brine, Density_aqNaCl, Viscosity_aqNaCl).            *)
(*                                                                         *)
(* A C `real` is modelled as an exact rational number                      *)
(*        s * n / (d * 10^e)                                               *)
(* with sign s, magnitudes n and d (d > 0) kept as little-endian sequences *)
(* of base-1000 limbs (TLC integers are 32 bit wide, the coefficients of   *)
(* the correlations are not), and a decimal exponent e.  The rounding of   *)
(* the build's floating-point type is not part of the model.               *)
(***************************************************************************)
EXTENDS Integers, Sequences, FiniteSets, TLC

(***************************************************************************)
(* Magnitudes: natural numbers as sequences of limbs, lowest limb first,   *)
(* no leading (highest) zero limb; zero is the empty sequence.             *)
(***************************************************************************)
Base == 10 * 10 * 10

MaxI(a, b) == IF a >= b THEN a ELSE b

MinI(a, b) == IF a <= b THEN a ELSE b

AbsI(a) == IF a < 0 THEN -a ELSE a

RECURSIVE MagFromNat(_)
MagFromNat(k) == IF k = 0 THEN << >> ELSE <<k % Base>> \o MagFromNat(k \div Base)

RECURSIVE MagTrim(_)
MagTrim(a) ==
  IF a = << >> THEN << >>
  ELSE IF a[Len(a)] = 0 THEN MagTrim(SubSeq(a, 1, Len(a) - 1)) ELSE a

MagOne == <<1>>

Limb(a, i) == IF i >= 1 /\ i <= Len(a) THEN a[i] ELSE 0

\* limbs i.. of the normal form of a sequence of non-negative integers, which
\* may exceed the base, with the carry coming in
RECURSIVE MagCarry(_, _, _)
MagCarry(a, i, carry) ==
  IF i > Len(a)
    THEN MagFromNat(carry)
    ELSE LET t == a[i] + carry
         IN  <<t % Base>> \o MagCarry(a, i + 1, t \div Base)

MagAdd(a, b) ==
  MagCarry([i \in 1..MaxI(Len(a), Len(b)) |-> Limb(a, i) + Limb(b, i)], 1, 0)

\* -1, 0, 1 as a < b, a = b, a > b, comparing from limb i downwards
RECURSIVE MagCmpFrom(_, _, _)
MagCmpFrom(a, b, i) ==
  IF i = 0 THEN 0
  ELSE IF a[i] < b[i] THEN -1
  ELSE IF a[i] > b[i] THEN 1
  ELSE MagCmpFrom(a, b, i - 1)

MagCmp(a, b) ==
  IF Len(a) < Len(b) THEN -1
  ELSE IF Len(a) > Len(b) THEN 1
  ELSE MagCmpFrom(a, b, Len(a))

\* a - b for a >= b: limbs i.. with the borrow coming in
RECURSIVE MagBorrow(_, _, _, _)
MagBorrow(a, b, i, borrow) ==
  IF i > Len(a)
    THEN << >>
    ELSE LET t == a[i] - Limb(b, i) - borrow
         IN  IF t < 0
               THEN <<t + Base>> \o MagBorrow(a, b, i + 1, 1)
               ELSE <<t>> \o MagBorrow(a, b, i + 1, 0)

MagSub(a, b) == MagTrim(MagBorrow(a, b, 1, 0))

\* sum of a[i] * b[k + 1 - i] for i in lo..hi
RECURSIVE MagConv(_, _, _, _, _)
MagConv(a, b, k, lo, hi) ==
  IF lo > hi THEN 0
  ELSE a[lo] * b[k + 1 - lo] + MagConv(a, b, k, lo + 1, hi)

MagMul(a, b) ==
  IF a = << >> \/ b = << >> THEN << >>
  ELSE IF a = MagOne THEN b
  ELSE IF b = MagOne THEN a
  ELSE MagCarry([k \in 1..(Len(a) + Len(b) - 1) |->
                   MagConv(a, b, k, MaxI(1, k + 1 - Len(b)), MinI(k, Len(a)))],
                1, 0)

RECURSIVE IntPow10(_)
IntPow10(k) == IF k = 0 THEN 1 ELSE 10 * IntPow10(k - 1)

\* 10^k
MagPow10(k) == [i \in 1..(k \div 3) |-> 0] \o <<IntPow10(k % 3)>>

MagMulPow10(a, k) == IF k = 0 THEN a ELSE MagMul(a, MagPow10(k))

(***************************************************************************)
(* real: the value s * n / (d * 10^e).                                     *)
(***************************************************************************)
Sgn(k) == IF k < 0 THEN -1 ELSE IF k > 0 THEN 1 ELSE 0

MkReal(s, n, d, e) ==
  IF s = 0 \/ n = << >>
    THEN [s |-> 0, n |-> << >>, d |-> MagOne, e |-> 0]
    ELSE [s |-> s, n |-> n, d |-> d, e |-> e]

\* the decimal literal m * 10^-e, as 0.9144 == Dec(9144, 4)
Dec(m, e) == MkReal(Sgn(m), MagFromNat(AbsI(m)), MagOne, e)

Zero == Dec(0, 0)

One == Dec(1, 0)

\* the quotient by zero: inf or NaN, kept as one value that is not a finite
\* number and, like NaN, compares false with every value
NonFinite == [s |-> 2, n |-> << >>, d |-> MagOne, e |-> 0]

IsFinite(a) == a.s # 2

RNeg(a) == IF IsFinite(a) THEN MkReal(-a.s, a.n, a.d, a.e) ELSE NonFinite

\* the signed sum of two magnitudes over one denominator
SignedSum(sa, na, sb, nb, d, e) ==
  IF sa = 0 THEN MkReal(sb, nb, d, e)
  ELSE IF sb = 0 THEN MkReal(sa, na, d, e)
  ELSE IF sa = sb THEN MkReal(sa, MagAdd(na, nb), d, e)
  ELSE LET c == MagCmp(na, nb)
       IN  IF c = 0 THEN MkReal(0, << >>, MagOne, 0)
           ELSE IF c > 0 THEN MkReal(sa, MagSub(na, nb), d, e)
           ELSE MkReal(sb, MagSub(nb, na), d, e)

RAdd(a, b) ==
  IF ~IsFinite(a) \/ ~IsFinite(b) THEN NonFinite
  ELSE
    LET e  == MaxI(a.e, b.e)
        na == MagMulPow10(a.n, e - a.e)
        nb == MagMulPow10(b.n, e - b.e)
    IN  IF a.d = b.d
          THEN SignedSum(a.s, na, b.s, nb, a.d, e)
          ELSE SignedSum(a.s, MagMul(na, b.d), b.s, MagMul(nb, a.d),
                         MagMul(a.d, b.d), e)

RSub(a, b) == RAdd(a, RNeg(b))

RMul(a, b) ==
  IF ~IsFinite(a) \/ ~IsFinite(b) THEN NonFinite
  ELSE MkReal(a.s * b.s, MagMul(a.n, b.n), MagMul(a.d, b.d), a.e + b.e)

RDiv(a, b) ==
  IF ~IsFinite(a) \/ ~IsFinite(b) \/ b.s = 0 THEN NonFinite
  ELSE MkReal(a.s * b.s, MagMul(a.n, b.d), MagMul(a.d, b.n), a.e - b.e)

\* -1, 0, 1 for a finite number; 2 for NonFinite
RSign(a) == a.s

REq(a, b) == RSign(RSub(a, b)) = 0

RLt(a, b) == RSign(RSub(a, b)) < 0

RLe(a, b) == RSign(RSub(a, b)) <= 0

RGt(a, b) == RLt(b, a)

\* pow(x, i) of math.h for an integer exponent i >= 0; pow(x, 0) is 1 for every x
RECURSIVE pow(_, _)
pow(x, i) == IF i = 0 THEN One ELSE RMul(x, pow(x, i - 1))

\* element i of a C array (indices from 0) kept as a tuple
At(arr, i) == arr[i + 1]

(***************************************************************************)
(* exp(x) is not a rational function: the value c * exp(x) is kept as the  *)
(* pair of c and x.  For rational c, x two such values are equal exactly   *)
(* when both c are zero or the c and the x agree.                          *)
(***************************************************************************)
exp(x) == [c |-> One, x |-> x]

EScale(r, p) == [c |-> RMul(r, p.c), x |-> p.x]

EEq(p, q) ==
  \/ RSign(p.c) = 0 /\ RSign(q.c) = 0
  \/ REq(p.c, q.c) /\ REq(p.x, q.x)

(***************************************************************************)
(* consts.h is not part of the sources: the selectors index the 2-element  *)
(* kappa and the 4-row A, B tables in the order the switch lists them.     *)
(***************************************************************************)
GAS == 0

SOLID == 1

PVDF == 0

PTFE == 1

PP == 2

PES == 3

(***************************************************************************)
(* psat_h2o                                                                *)
(***************************************************************************)
PSAT_A == Dec(1, 2)

PSAT_TP == Dec(33815, 2)

C_LOOP == 8

H2O_PC == Dec(22089000, 0)

H2O_TC == Dec(647286, 3)

psat_constants ==
  << Dec(-74192420, 7), Dec(297221, 6), Dec(-1155286, 7), Dec(868563, 8),
     Dec(1094098, 9), Dec(-439993, 8), Dec(2520658, 9), Dec(-5218684, 10) >>

\* the while loop of lines 27..32, from i with sum1 so far
RECURSIVE psat_loop(_, _, _)
psat_loop(var1, i, sum1) ==
  IF i < C_LOOP
    THEN psat_loop(var1, i + 1,
                   RAdd(sum1, RMul(At(psat_constants, i), pow(var1, i))))
    ELSE sum1

psat_h2o(tsat) ==
  LET var1 == RMul(PSAT_A, RSub(tsat, PSAT_TP))
      sum1 == psat_loop(var1, 0, Zero)
      ans1 == RMul(sum1, RSub(RDiv(H2O_TC, tsat), One))
  IN  EScale(H2O_PC, exp(ans1))

(***************************************************************************)
(* ThermCond_Maxwell                                                       *)
(***************************************************************************)
MsgMaxwellOpt == "Function: ThermCond_Maxwell() has a wrong input argument of opt"

Maxwell_A == << Dec(5769, 3), Dec(5769, 3), Dec(125, 1), Dec(4167, 3) >>

Maxwell_B == << Dec(9144, 4), Dec(8914, 3), Dec(-2351, 2), Dec(1452, 3) >>

\* sqrt of math.h, on the perfect squares the model calls it with
sqrt(x) == CHOOSE r \in {Dec(k, 0) : k \in 0..31} : REq(RMul(r, r), x)

\* the switch of lines 54..60: the row index i, which starts as 0 (line 51),
\* and the messages written
MaxwellSwitch(opt) ==
  CASE opt = 0 -> [i |-> PVDF, msgs |-> << >>]
    [] opt = 1 -> [i |-> PTFE, msgs |-> << >>]
    [] opt = 2 -> [i |-> PP, msgs |-> << >>]
    [] opt = 3 -> [i |-> PES, msgs |-> << >>]
    [] OTHER   -> [i |-> 0, msgs |-> <<MsgMaxwellOpt>>]

\* lines 52, 53 and 61..63 with the row index i chosen
MaxwellResult(temp, porosity, i) ==
  LET kappa0 == (GAS :> RMul(Dec(15, 4), sqrt(temp)))
      kappa1 == [kappa0 EXCEPT ![GAS] = RAdd(Dec(272, 5), RMul(Dec(777, 7), temp))]
      kappa  == kappa1 @@
                (SOLID :> RAdd(RMul(RMul(At(Maxwell_A, i), Dec(1, 4)), temp),
                               RMul(At(Maxwell_B, i), Dec(1, 2))))
      beta   == RDiv(RSub(kappa[SOLID], kappa[GAS]),
                     RAdd(kappa[SOLID], RMul(Dec(2, 0), kappa[GAS])))
      oneMp  == RSub(One, porosity)
  IN  RDiv(RMul(kappa[GAS], RAdd(One, RMul(RMul(Dec(2, 0), beta), oneMp))),
           RSub(One, RMul(beta, oneMp)))

\* a call returns a real: there is no other way out of the function
ThermCond_Maxwell(temp, porosity, opt) ==
  LET sw == MaxwellSwitch(opt)
  IN  [status |-> "returned",
       val    |-> MaxwellResult(temp, porosity, sw.i),
       msgs   |-> sw.msgs]

(***************************************************************************)
(* SatConc                                                                 *)
(***************************************************************************)
MsgSatConcRange == "[WARNING] Solubility correlation is out of temperature range."

SatConc_A == << Dec(2628, 4), Dec(6275, 8), Dec(1084, 9) >>

\* the condition of line 78
SatConcWarn(t) == RLt(t, Zero) \/ RGt(t, Dec(450, 0))

RECURSIVE SatConc_loop(_, _, _)
SatConc_loop(temp, i, w_sat) ==
  IF i < 3
    THEN SatConc_loop(temp, i + 1, RAdd(w_sat, RMul(At(SatConc_A, i), pow(temp, i))))
    ELSE w_sat

SatConc(t) ==
  LET temp == RSub(t, Dec(27315, 2))
  IN  [status |-> "returned",
       val    |-> SatConc_loop(temp, 0, Zero),
       msgs   |-> IF SatConcWarn(t) THEN <<MsgSatConcRange>> ELSE << >>]

(***************************************************************************)
(* LatentHeat, Convert_w2m                                                 *)
(***************************************************************************)
LatentHeat(t) == RMul(Dec(1000, 0), RAdd(RMul(Dec(17535, 4), t), Dec(20243, 1)))

Convert_w2m_Mul(w) ==
  RMul(RDiv(RMul(w, RSub(One, w)), Dec(584428, 4)), Dec(1000, 0))

\* for w # 1
Convert_w2m(w) ==
  RMul(RDiv(RDiv(w, RSub(One, w)), Dec(584428, 4)), Dec(1000, 0))

(***************************************************************************)
(* ThermCond_aqNaCl                                                        *)
(***************************************************************************)
MsgCondT == "[WARNING] Out of temperature range in thermal conductivity correlation"

MsgCondM == "[WARNING] Out of molality range in thermal conductivity correlation"

Cond_a ==
  << << Dec(5621, 4), Dec(199, 5), Dec(-86, 7) >>,
     << Dec(-1394, 5), Dec(294, 6), Dec(-23, 7) >>,
     << Dec(177, 5), Dec(-63, 6), Dec(45, 8) >> >>

\* line 123
CondWarnT(T) == RLt(T, Dec(295, 0)) \/ RGt(T, Dec(365, 0))

\* line 124
CondWarnM(m) == RLe(m, Dec(60, 1))

\* lines 121..125
CondMsgs(T, m, idm) ==
  IF idm < 2
    THEN (IF CondWarnT(T) THEN <<MsgCondT>> ELSE << >>) \o
         (IF CondWarnM(m) THEN <<MsgCondM>> ELSE << >>)
    ELSE << >>

\* the inner loop of lines 128..131
RECURSIVE Cond_inner(_, _, _, _)
Cond_inner(T, i, j, sum_i) ==
  IF j < 3
    THEN Cond_inner(T, i, j + 1,
           RAdd(sum_i, RMul(At(At(Cond_a, i), j), pow(RSub(T, Dec(27315, 2)), j))))
    ELSE sum_i

\* the outer loop of lines 126..133
RECURSIVE Cond_outer(_, _, _, _)
Cond_outer(T, m, i, lambda) ==
  IF i < 3
    THEN Cond_outer(T, m, i + 1,
           RAdd(lambda, RMul(Cond_inner(T, i, 0, Zero), pow(m, i))))
    ELSE lambda

\* the call, one step per statement group; the frame holds the arguments and locals
TC_enter(T, w_nacl) ==
  [fn |-> "ThermCond_aqNaCl", pc |-> "convert", T |-> T, w_nacl |-> w_nacl,
   m |-> Zero, lambda |-> Zero, msgs |-> << >>]

\* line 120
TC_convert(f) == [f EXCEPT !.m = Convert_w2m(f.w_nacl), !.pc = "check"]

\* lines 121..125: the one read of the global id_message
TC_check(f, idm) == [f EXCEPT !.msgs = CondMsgs(f.T, f.m, idm), !.pc = "loops"]

\* lines 126..133
TC_loops(f) == [f EXCEPT !.lambda = Cond_outer(f.T, f.m, 0, Zero), !.pc = "return"]

\* line 134
TC_return(f) == [f EXCEPT !.pc = "done"]

\* for w_nacl # 1
ThermCond_aqNaCl(T, w_nacl, idm) ==
  LET f == TC_return(TC_loops(TC_check(TC_convert(TC_enter(T, w_nacl)), idm)))
  IN  [status |-> "returned", val |-> f.lambda, msgs |-> f.msgs]

(***************************************************************************)
(* The heap: each address holds one block, live between the malloc that    *)
(* returned it and its free.  cells maps the element indices written so    *)
(* far to their values.                                                    *)
(***************************************************************************)
Threads == {1, 2}

NULL == 0

Addr == {1, 2}

NoBlock == [live |-> FALSE, size |-> 0, cells |-> << >>]

EmptyHeap == [a \in Addr |-> NoBlock]

\* the addresses malloc may return: the block is disjoint from every live block
MallocStatic(h, n) == {1}

Malloc(h, n) == {a \in Addr : ~h[a].live}

\* whether element i of the block at a may be accessed
Valid(h, a, i) == a \in Addr /\ h[a].live /\ i >= 0 /\ i < h[a].size

Load(h, a, i) ==
  IF a \in Addr /\ i \in DOMAIN h[a].cells THEN h[a].cells[i] ELSE Zero

Store(h, a, i, v) ==
  IF a \in Addr
    THEN [h EXCEPT ![a].cells = (i :> v) @@ h[a].cells]
    ELSE h

(***************************************************************************)
(* ConvertX, one step per statement.  A frame holds the arguments, the     *)
(* locals, the statement to execute next and, in trace, the heap           *)
(* operations of the call so far, each access with whether it fell inside  *)
(* a live block.                                                           *)
(***************************************************************************)
CX_enter(imat, nmat, MW, wi) ==
  [fn |-> "ConvertX", pc |-> "malloc", imat |-> imat, nmat |-> nmat,
   MW |-> MW, wi |-> wi, r |-> NULL, sum_N |-> Zero, xi |-> Zero, i |-> 0,
   trace |-> << >>]

\* line 149, and the i = 0 and first test of line 150
CX_malloc(f, h, a) ==
  [f |-> [f EXCEPT !.r = a, !.i = 0,
                   !.pc = IF 0 < f.nmat THEN "store" ELSE "result",
                   !.trace = Append(@, <<"malloc", a, f.nmat>>)],
   h |-> [h EXCEPT ![a] = [live |-> TRUE, size |-> f.nmat, cells |-> << >>]]]

\* line 152
CX_store(f, h) ==
  [f |-> [f EXCEPT !.pc = "accum",
                   !.trace = Append(@, <<"store", f.i, Valid(h, f.r, f.i)>>)],
   h |-> Store(h, f.r, f.i, RDiv(At(f.wi, f.i), At(f.MW, f.i)))]

\* line 153 with sum_N = r[i] for sum_N = sum_N+r[i]
CX_accum_assign(f, h) ==
  [f |-> [f EXCEPT !.sum_N = Load(h, f.r, f.i), !.i = f.i + 1,
                   !.pc = IF f.i + 1 < f.nmat THEN "store" ELSE "result",
                   !.trace = Append(@, <<"load", f.i, Valid(h, f.r, f.i)>>)],
   h |-> h]

\* line 153, and the i++ and test of line 150
CX_accum(f, h) ==
  [f |-> [f EXCEPT !.sum_N = RAdd(f.sum_N, Load(h, f.r, f.i)), !.i = f.i + 1,
                   !.pc = IF f.i + 1 < f.nmat THEN "store" ELSE "result",
                   !.trace = Append(@, <<"load", f.i, Valid(h, f.r, f.i)>>)],
   h |-> h]

\* line 155
CX_result(f, h) ==
  [f |-> [f EXCEPT !.xi = RDiv(Load(h, f.r, f.imat), f.sum_N),
                   !.pc = "free",
                   !.trace = Append(@, <<"load", f.imat, Valid(h, f.r, f.imat)>>)],
   h |-> h]

\* line 156 left out
CX_free_leak(f, h) == [f |-> [f EXCEPT !.pc = "return"], h |-> h]

\* line 156
CX_free(f, h) ==
  [f |-> [f EXCEPT !.pc = "return",
                   !.trace = Append(@, <<"free", f.r, f.r \in Addr /\ h[f.r].live>>)],
   h |-> IF f.r \in Addr THEN [h EXCEPT ![f.r] = NoBlock] ELSE h]

\* line 157
CX_return(f, h) == [f |-> [f EXCEPT !.pc = "done"], h |-> h]

\* the statements after the malloc
CX_step(f, h) ==
  CASE f.pc = "store"  -> CX_store(f, h)
    [] f.pc = "accum"  -> CX_accum(f, h)
    [] f.pc = "result" -> CX_result(f, h)
    [] f.pc = "free"   -> CX_free(f, h)
    [] f.pc = "return" -> CX_return(f, h)

LeastOf(S) == CHOOSE a \in S : \A b \in S : a <= b

\* a call run to its return with no other call in between
RECURSIVE CX_run(_, _)
CX_run(f, h) ==
  IF f.pc = "done" THEN [f |-> f, h |-> h]
  ELSE IF f.pc = "malloc"
    THEN LET s == CX_malloc(f, h, LeastOf(Malloc(h, f.nmat))) IN CX_run(s.f, s.h)
    ELSE LET s == CX_step(f, h) IN CX_run(s.f, s.h)

ConvertX(imat, nmat, MW, wi) == CX_run(CX_enter(imat, nmat, MW, wi), EmptyHeap).f.xi

(***************************************************************************)
(* ActivityCoefficient_h2o, WaterVaporPressure_brine                       *)
(***************************************************************************)
ActivityCoefficient_h2o(x_nv) ==
  RSub(RSub(One, RMul(Dec(5, 1), x_nv)), RMul(Dec(10, 0), pow(x_nv, 2)))

Brine_MW == << Dec(1801534, 5), Dec(584428, 4) >>

\* with wi[1] = mass_fraction_h2o for wi[1] = 1.-mass_fraction_h2o (line 183)
WaterVaporPressure_brine_wi(temperature, mass_fraction_h2o) ==
  LET wi    == << mass_fraction_h2o, mass_fraction_h2o >>
      x_nv  == RSub(One, ConvertX(0, 2, Brine_MW, wi))
      alpha == ActivityCoefficient_h2o(x_nv)
  IN  EScale(RMul(RSub(One, x_nv), alpha), psat_h2o(temperature))

WaterVaporPressure_brine(temperature, mass_fraction_h2o) ==
  LET wi    == << mass_fraction_h2o, RSub(One, mass_fraction_h2o) >>
      x_nv  == RSub(One, ConvertX(0, 2, Brine_MW, wi))
      alpha == ActivityCoefficient_h2o(x_nv)
  IN  EScale(RMul(RSub(One, x_nv), alpha), psat_h2o(temperature))

(***************************************************************************)
(* Density_aqNaCl                                                          *)
(***************************************************************************)
MsgDensityRange == "[WARNING] Density correlation is out of temperature range."

Density_A ==
  << << Dec(1001, 3), Dec(7666, 4), Dec(-149, 4), Dec(2663, 4), Dec(8845, 4) >>,
     << Dec(-214, 4), Dec(-3496, 3), Dec(1002, 2), Dec(-656, 2), Dec(-3137, 2) >>,
     << Dec(-5263, 3), Dec(3987, 2), Dec(1762, 1), Dec(3635, 1), Dec(-7784, 3) >>,
     << Dec(1542, 2), Dec(-1670, 1), Dec(9807, 1), Dec(-25730, 1), Dec(8766, 1) >>,
     << Dec(-276, 4), Dec(2978, 4), Dec(-2017, 3), Dec(6345, 3), Dec(-3914, 3) >> >>

Density_C == << Dec(1000, 0), Dec(1, 0), Dec(1, 3), Dec(1, 6), Dec(1, 6) >>

\* line 206 with T taken as Kelvin and converted to Celsius
DensityWarn_Kelvin(T, idm) ==
  idm < 2 /\ (RLt(RSub(T, Dec(27315, 2)), Zero) \/ RGt(RSub(T, Dec(27315, 2)), Dec(300, 0)))

\* the condition of line 206
DensityWarn(T, idm) == idm < 2 /\ (RLt(T, Zero) \/ RGt(T, Dec(300, 0)))

\* the inner loop of lines 209..212
RECURSIVE Density_inner(_, _, _, _)
Density_inner(w, i, j, B_i) ==
  IF j < 5
    THEN Density_inner(w, i, j + 1,
                       RAdd(B_i, RMul(At(At(Density_A, i), j), pow(w, j))))
    ELSE B_i

\* the outer loop of lines 207..214
RECURSIVE Density_outer(_, _, _, _)
Density_outer(T, w, i, sum) ==
  IF i < 5
    THEN Density_outer(T, w, i + 1,
           RAdd(sum, RMul(RMul(Density_inner(w, i, 0, Zero), At(Density_C, i)),
                          pow(T, i))))
    ELSE sum

Density_aqNaCl(T, w, idm) ==
  [status |-> "returned",
   val    |-> Density_outer(T, w, 0, Zero),
   msgs   |-> IF DensityWarn(T, idm) THEN <<MsgDensityRange>> ELSE << >>]

(***************************************************************************)
(* Viscosity_aqNaCl                                                        *)
(***************************************************************************)
MsgViscosityRange == "[WARNING] Viscosity correlation is out of mass-fraction range."

\* the condition of line 227
ViscosityWarn(w_nv, idm) == idm < 2 /\ (RLt(w_nv, Zero) \/ RGt(w_nv, Dec(25, 2)))

\* line 228
ViscosityValue(T, w_nv) ==
  RMul(RAdd(RAdd(RSub(RAdd(RSub(Dec(1702821, 5), RMul(Dec(39206, 5), T)),
                           RMul(Dec(188912, 6), w_nv)),
                      RMul(RMul(Dec(466, 5), T), w_nv)),
                 RMul(RMul(Dec(3025, 6), T), T)),
            RMul(RMul(Dec(11738, 6), w_nv), w_nv)),
       Dec(1, 3))

\* the call given up, returning 0, when the range warning is written
Viscosity_aqNaCl_abort(T, w_nv, idm) ==
  [status |-> "returned",
   val    |-> IF ViscosityWarn(w_nv, idm) THEN Zero ELSE ViscosityValue(T, w_nv),
   msgs   |-> IF ViscosityWarn(w_nv, idm) THEN <<MsgViscosityRange>> ELSE << >>]

Viscosity_aqNaCl(T, w_nv, idm) ==
  [status |-> "returned",
   val    |-> ViscosityValue(T, w_nv),
   msgs   |-> IF ViscosityWarn(w_nv, idm) THEN <<MsgViscosityRange>> ELSE << >>]

(***************************************************************************)
(* The state.  id_message is the global verbosity threshold the library    *)
(* reads; call, ret and log are the call a single-threaded host made last, *)
(* what it returned and the messages it wrote; heap is the allocator's     *)
(* state and frame[t] the call thread t is executing.                      *)
(***************************************************************************)
VARIABLES id_message, call, ret, log, heap, frame

vars == <<id_message, call, ret, log, heap, frame>>

MaxIdMessage == 3

IdLevels == 0..MaxIdMessage

MaxOpt == 4

Opts == -1..MaxOpt

MaxTK == 9

\* temperatures, the range limits of the correlations among them
TempGrid ==
  {Dec(100 * k, 0) : k \in 0..MaxTK} \cup
  { Dec(-10, 0), Dec(25, 0), Dec(27315, 2), Dec(290, 0), Dec(295, 0),
    Dec(29815, 2), Dec(310, 0), Dec(365, 0), Dec(370, 0), Dec(450, 0),
    Dec(57315, 2), Dec(72315, 2), Dec(750, 0) }

PositiveTemps == {t \in TempGrid : RSign(t) > 0}

\* temperatures that are perfect squares, for sqrt
SquareTemps == {Dec(289, 0), Dec(324, 0), Dec(361, 0)}

Porosities == {Dec(6, 1), Dec(8, 1), One}

MaxWK == 5

\* the mass fraction with molality exactly 6.0
W_m6 == RDiv(Dec(3506568, 7), Dec(13506568, 7))

\* mass fractions
FracGrid ==
  {Dec(25 * k, 2) : k \in -1..MaxWK} \cup {Dec(5, 2), Dec(1, 1), Dec(3, 1), W_m6}

UnitFracs == {w \in FracGrid : RLe(Zero, w) /\ RLe(w, One)}

\* mass fractions for which 1.-w is not zero
FracsNot1 == {w \in FracGrid : ~REq(w, One)}

MolarWeights == {One, Dec(2, 0)} \cup {Brine_MW[k] : k \in 1..2}

Nmats == {1, 2}

RECURSIVE SumOf(_, _)
SumOf(wi, k) == IF k = 0 THEN Zero ELSE RAdd(SumOf(wi, k - 1), wi[k])

\* the mass fractions of an n-component mixture: they sum to 1
Compositions(n) == {wi \in [1..n -> UnitFracs] : REq(SumOf(wi, n), One)}

Idle == [fn |-> "idle"]

NoRet == [status |-> "none"]

IdleFrame == [fn |-> "none", pc |-> "idle"]

Init ==
  /\ id_message \in IdLevels
  /\ call = Idle
  /\ ret = NoRet
  /\ log = << >>
  /\ heap = EmptyHeap
  /\ frame = [t \in Threads |-> IdleFrame]

Returned(v) == [status |-> "returned", val |-> v]

Call_psat_h2o ==
  /\ call = Idle
  /\ \E tsat \in PositiveTemps :
       /\ call' = [fn |-> "psat_h2o", tsat |-> tsat]
       /\ ret' = Returned(psat_h2o(tsat))
       /\ log' = << >>
  /\ UNCHANGED <<id_message, heap, frame>>

Call_ThermCond_Maxwell ==
  /\ call = Idle
  /\ \E temp \in SquareTemps, porosity \in Porosities, opt \in Opts :
       LET out == ThermCond_Maxwell(temp, porosity, opt)
       IN  /\ call' = [fn |-> "ThermCond_Maxwell", temp |-> temp,
                       porosity |-> porosity, opt |-> opt]
           /\ ret' = [status |-> out.status, val |-> out.val]
           /\ log' = out.msgs
  /\ UNCHANGED <<id_message, heap, frame>>

Call_SatConc ==
  /\ call = Idle
  /\ \E t \in TempGrid :
       LET out == SatConc(t)
       IN  /\ call' = [fn |-> "SatConc", t |-> t]
           /\ ret' = [status |-> out.status, val |-> out.val]
           /\ log' = out.msgs
  /\ UNCHANGED <<id_message, heap, frame>>

Call_LatentHeat ==
  /\ call = Idle
  /\ \E t \in TempGrid :
       /\ call' = [fn |-> "LatentHeat", t |-> t]
       /\ ret' = Returned(LatentHeat(t))
       /\ log' = << >>
  /\ UNCHANGED <<id_message, heap, frame>>

Call_Convert_w2m ==
  /\ call = Idle
  /\ \E w \in FracsNot1 :
       /\ call' = [fn |-> "Convert_w2m", w |-> w]
       /\ ret' = Returned(Convert_w2m(w))
       /\ log' = << >>
  /\ UNCHANGED <<id_message, heap, frame>>

Call_ThermCond_aqNaCl ==
  /\ call = Idle
  /\ \E T \in TempGrid, w_nacl \in FracsNot1 :
       LET out == ThermCond_aqNaCl(T, w_nacl, id_message)
       IN  /\ call' = [fn |-> "ThermCond_aqNaCl", T |-> T, w_nacl |-> w_nacl]
           /\ ret' = [status |-> out.status, val |-> out.val]
           /\ log' = out.msgs
  /\ UNCHANGED <<id_message, heap, frame>>

Call_ConvertX ==
  /\ call = Idle
  /\ \E nmat \in Nmats :
       \E imat \in 0..(nmat - 1), MW \in [1..nmat -> MolarWeights],
          wi \in Compositions(nmat) :
         LET out == CX_run(CX_enter(imat, nmat, MW, wi), heap)
         IN  /\ call' = [fn |-> "ConvertX", imat |-> imat, nmat |-> nmat,
                         MW |-> MW, wi |-> wi]
             /\ ret' = Returned(out.f.xi)
             /\ log' = << >>
             /\ heap' = out.h
  /\ UNCHANGED <<id_message, frame>>

Call_ActivityCoefficient_h2o ==
  /\ call = Idle
  /\ \E x_nv \in UnitFracs :
       /\ call' = [fn |-> "ActivityCoefficient_h2o", x_nv |-> x_nv]
       /\ ret' = Returned(ActivityCoefficient_h2o(x_nv))
       /\ log' = << >>
  /\ UNCHANGED <<id_message, heap, frame>>

Call_WaterVaporPressure_brine ==
  /\ call = Idle
  /\ \E temperature \in PositiveTemps, mass_fraction_h2o \in UnitFracs :
       /\ call' = [fn |-> "WaterVaporPressure_brine", temperature |-> temperature,
                   mass_fraction_h2o |-> mass_fraction_h2o]
       /\ ret' = Returned(WaterVaporPressure_brine(temperature, mass_fraction_h2o))
       /\ log' = << >>
  /\ UNCHANGED <<id_message, heap, frame>>

Call_Density_aqNaCl ==
  /\ call = Idle
  /\ \E T \in TempGrid, w \in FracGrid :
       LET out == Density_aqNaCl(T, w, id_message)
       IN  /\ call' = [fn |-> "Density_aqNaCl", T |-> T, w |-> w]
           /\ ret' = [status |-> out.status, val |-> out.val]
           /\ log' = out.msgs
  /\ UNCHANGED <<id_message, heap, frame>>

Call_Viscosity_aqNaCl ==
  /\ call = Idle
  /\ \E T \in TempGrid, w_nv \in FracGrid :
       LET out == Viscosity_aqNaCl(T, w_nv, id_message)
       IN  /\ call' = [fn |-> "Viscosity_aqNaCl", T |-> T, w_nv |-> w_nv]
           /\ ret' = [status |-> out.status, val |-> out.val]
           /\ log' = out.msgs
  /\ UNCHANGED <<id_message, heap, frame>>

\* the host takes the result and goes on
Resume ==
  /\ call # Idle
  /\ call' = Idle
  /\ ret' = NoRet
  /\ log' = << >>
  /\ UNCHANGED <<id_message, heap, frame>>

Next ==
  \/ Call_psat_h2o
  \/ Call_ThermCond_Maxwell
  \/ Call_SatConc
  \/ Call_LatentHeat
  \/ Call_Convert_w2m
  \/ Call_ThermCond_aqNaCl
  \/ Call_ConvertX
  \/ Call_ActivityCoefficient_h2o
  \/ Call_WaterVaporPressure_brine
  \/ Call_Density_aqNaCl
  \/ Call_Viscosity_aqNaCl
  \/ Resume

Spec == Init /\ [][Next]_vars

(***************************************************************************)
(* Several threads calling the library at once, each with its own          *)
(* arguments: ConvertX and ThermCond_aqNaCl execute statement by statement *)
(* and any thread may take the next step.                                  *)
(***************************************************************************)
MT_MWs == {Brine_MW, <<Dec(2, 0), One>>}

MT_Fracs == {<<Dec(25, 2), Dec(75, 2)>>, <<Dec(5, 1), Dec(5, 1)>>}

MT_Temps == {Dec(290, 0), Dec(300, 0)}

MT_Salts == {Dec(1, 1), Dec(3, 1)}

\* the first n elements of an array
Prefix(arr, n) == SubSeq(arr, 1, n)

MT_Call_ConvertX(t) ==
  /\ frame[t].pc = "idle"
  /\ \E nmat \in Nmats, MW \in MT_MWs, wi \in MT_Fracs :
       \E imat \in 0..(nmat - 1) :
         frame' = [frame EXCEPT
                     ![t] = CX_enter(imat, nmat, Prefix(MW, nmat), Prefix(wi, nmat))]
  /\ UNCHANGED <<id_message, call, ret, log, heap>>

MT_malloc(t) ==
  /\ frame[t].fn = "ConvertX" /\ frame[t].pc = "malloc"
  /\ \E a \in Malloc(heap, frame[t].nmat) :
       LET s == CX_malloc(frame[t], heap, a)
       IN  /\ frame' = [frame EXCEPT ![t] = s.f]
           /\ heap' = s.h
  /\ UNCHANGED <<id_message, call, ret, log>>

\* line 152
MT_store(t) ==
  /\ frame[t].fn = "ConvertX" /\ frame[t].pc = "store"
  /\ LET s == CX_store(frame[t], heap)
     IN  /\ frame' = [frame EXCEPT ![t] = s.f]
         /\ heap' = s.h
  /\ UNCHANGED <<id_message, call, ret, log>>

\* line 153
MT_accum(t) ==
  /\ frame[t].fn = "ConvertX" /\ frame[t].pc = "accum"
  /\ LET s == CX_accum(frame[t], heap)
     IN  /\ frame' = [frame EXCEPT ![t] = s.f]
         /\ heap' = s.h
  /\ UNCHANGED <<id_message, call, ret, log>>

\* line 155
MT_result(t) ==
  /\ frame[t].fn = "ConvertX" /\ frame[t].pc = "result"
  /\ LET s == CX_result(frame[t], heap)
     IN  /\ frame' = [frame EXCEPT ![t] = s.f]
         /\ heap' = s.h
  /\ UNCHANGED <<id_message, call, ret, log>>

\* line 156
MT_free(t) ==
  /\ frame[t].fn = "ConvertX" /\ frame[t].pc = "free"
  /\ LET s == CX_free(frame[t], heap)
     IN  /\ frame' = [frame EXCEPT ![t] = s.f]
         /\ heap' = s.h
  /\ UNCHANGED <<id_message, call, ret, log>>

\* line 157
MT_return(t) ==
  /\ frame[t].fn = "ConvertX" /\ frame[t].pc = "return"
  /\ LET s == CX_return(frame[t], heap)
     IN  /\ frame' = [frame EXCEPT ![t] = s.f]
         /\ heap' = s.h
  /\ UNCHANGED <<id_message, call, ret, log>>

MT_Call_ThermCond_aqNaCl(t) ==
  /\ frame[t].pc = "idle"
  /\ \E T \in MT_Temps, w_nacl \in MT_Salts :
       frame' = [frame EXCEPT ![t] = TC_enter(T, w_nacl)]
  /\ UNCHANGED <<id_message, call, ret, log, heap>>

MT_TC_convert(t) ==
  /\ frame[t].fn = "ThermCond_aqNaCl" /\ frame[t].pc = "convert"
  /\ frame' = [frame EXCEPT ![t] = TC_convert(frame[t])]
  /\ UNCHANGED <<id_message, call, ret, log, heap>>

MT_TC_check(t) ==
  /\ frame[t].fn = "ThermCond_aqNaCl" /\ frame[t].pc = "check"
  /\ frame' = [frame EXCEPT ![t] = TC_check(frame[t], id_message)]
  /\ UNCHANGED <<id_message, call, ret, log, heap>>

MT_TC_loops(t) ==
  /\ frame[t].fn = "ThermCond_aqNaCl" /\ frame[t].pc = "loops"
  /\ frame' = [frame EXCEPT ![t] = TC_loops(frame[t])]
  /\ UNCHANGED <<id_message, call, ret, log, heap>>

MT_TC_return(t) ==
  /\ frame[t].fn = "ThermCond_aqNaCl" /\ frame[t].pc = "return"
  /\ frame' = [frame EXCEPT ![t] = TC_return(frame[t])]
  /\ UNCHANGED <<id_message, call, ret, log, heap>>

\* the caller takes the result and goes on
MT_Resume(t) ==
  /\ frame[t].pc = "done"
  /\ frame' = [frame EXCEPT ![t] = IdleFrame]
  /\ UNCHANGED <<id_message, call, ret, log, heap>>

MT_Next ==
  \E t \in Threads :
    \/ MT_Call_ConvertX(t)
    \/ MT_malloc(t)
    \/ MT_store(t)
    \/ MT_accum(t)
    \/ MT_result(t)
    \/ MT_free(t)
    \/ MT_return(t)
    \/ MT_Call_ThermCond_aqNaCl(t)
    \/ MT_TC_convert(t)
    \/ MT_TC_check(t)
    \/ MT_TC_loops(t)
    \/ MT_TC_return(t)
    \/ MT_Resume(t)

SpecMT == Init /\ [][MT_Next]_vars

(***************************************************************************)
(* Properties                                                              *)
(***************************************************************************)
InLog(msg) == \E k \in 1..Len(log) : log[k] = msg

\* a Kelvin temperature in Celsius
Celsius(t) == RSub(t, Dec(27315, 2))

Outside(x, lo, hi) == RLt(x, lo) \/ RGt(x, hi)

\* C1: a call of ThermCond_Maxwell with opt outside {0,1,2,3} reports an
\* InvalidSelectorError and returns no value computed from a row of the A, B tables
C1_InvalidSelectorReported ==
  (call.fn = "ThermCond_Maxwell" /\ call.opt \notin {0, 1, 2, 3}) =>
    /\ ret.status = "InvalidSelectorError"
    /\ \A i \in 0..3 : ~REq(ret.val, MaxwellResult(call.temp, call.porosity, i))

\* C2: ThermCond_aqNaCl writes the molality warning exactly when id_message < 2
\* and the molality exceeds 6.0, and the temperature warning exactly when
\* id_message < 2 and T is outside [295, 365]
C2_BrineConductivityWarnings ==
  call.fn = "ThermCond_aqNaCl" =>
    /\ InLog(MsgCondM) <=>
         (id_message < 2 /\ RGt(Convert_w2m(call.w_nacl), Dec(60, 1)))
    /\ InLog(MsgCondT) <=>
         (id_message < 2 /\ Outside(call.T, Dec(295, 0), Dec(365, 0)))

\* C3: SatConc writes its range warning exactly when the Celsius temperature
\* t - 273.15 is outside [0, 450]
C3_SolubilityWarnsOnCelsius ==
  call.fn = "SatConc" =>
    (InLog(MsgSatConcRange) <=> Outside(Celsius(call.t), Zero, Dec(450, 0)))

\* C4 as stated: Density_aqNaCl writes its range warning exactly when
\* id_message < 2 and its Kelvin argument, in Celsius, is outside [0, 300]
C4_DensityWarnsOnCelsius ==
  call.fn = "Density_aqNaCl" =>
    (InLog(MsgDensityRange) <=>
       (id_message < 2 /\ Outside(Celsius(call.T), Zero, Dec(300, 0))))

\* C4 as amended: Density_aqNaCl writes its range warning exactly when
\* id_message < 2 and its argument T, compared as it is given, is outside
\* [0, 300]; with id_message >= 2 it writes none, and none for T = 298.15
C4_DensityWarnsOnArgument ==
  call.fn = "Density_aqNaCl" =>
    /\ InLog(MsgDensityRange) <=>
         (id_message < 2 /\ ~(RLe(Zero, call.T) /\ RLe(call.T, Dec(300, 0))))
    /\ id_message >= 2 => log = << >>
    /\ REq(call.T, Dec(29815, 2)) => log = << >>

\* a warning written for a Kelvin temperature whose Celsius value is in range
C4_Witness ==
  /\ call.fn = "Density_aqNaCl"
  /\ REq(call.T, Dec(310, 0))
  /\ id_message < 2
  /\ InLog(MsgDensityRange)

\* the 3-term polynomial of the solubility correlation, written out
SolubilityPolynomial(c) ==
  RAdd(RAdd(Dec(2628, 4), RMul(Dec(6275, 8), c)), RMul(Dec(1084, 9), RMul(c, c)))

\* C5: SatConc, ThermCond_aqNaCl, Density_aqNaCl and Viscosity_aqNaCl return a
\* value for every input, warning or not, and the value is the same for every
\* value of id_message
C5_WarnAndContinue ==
  /\ call.fn = "SatConc" =>
       /\ ret.status = "returned"
       /\ REq(ret.val, SolubilityPolynomial(Celsius(call.t)))
  /\ call.fn = "ThermCond_aqNaCl" =>
       /\ ret.status = "returned"
       /\ \A idm \in IdLevels :
            REq(ThermCond_aqNaCl(call.T, call.w_nacl, idm).val, ret.val)
  /\ call.fn = "Density_aqNaCl" =>
       /\ ret.status = "returned"
       /\ \A idm \in IdLevels : REq(Density_aqNaCl(call.T, call.w, idm).val, ret.val)
  /\ call.fn = "Viscosity_aqNaCl" =>
       /\ ret.status = "returned"
       /\ \A idm \in IdLevels :
            REq(Viscosity_aqNaCl(call.T, call.w_nv, idm).val, ret.val)

\* a call that wrote its range warning and returned a value
C5_Witness ==
  /\ call.fn = "Viscosity_aqNaCl"
  /\ InLog(MsgViscosityRange)
  /\ ret.status = "returned"
  /\ RSign(ret.val) # 0

\* C6: WaterVaporPressure_brine(T, 1) equals psat_h2o(T): the water mole
\* fraction of the mass fractions {1, 0} is 1, x_nv is 0 and the activity
\* coefficient is 1
C6_PureWaterIsSaturationPressure ==
  (call.fn = "WaterVaporPressure_brine" /\ REq(call.mass_fraction_h2o, One)) =>
    /\ EEq(ret.val, psat_h2o(call.temperature))
    /\ REq(ConvertX(0, 2, Brine_MW, <<One, Zero>>), One)
    /\ REq(ActivityCoefficient_h2o(Zero), One)

C6_Witness ==
  /\ call.fn = "WaterVaporPressure_brine"
  /\ REq(call.mass_fraction_h2o, One)
  /\ REq(call.temperature, Dec(29815, 2))
  /\ ret.status = "returned"

\* the call is of a 2-component system with positive molar weights and mass
\* fractions {w, 1-w}, w in [0, 1]
TwoComponentCall ==
  /\ call.fn = "ConvertX"
  /\ call.nmat = 2
  /\ RSign(call.MW[1]) > 0 /\ RSign(call.MW[2]) > 0
  /\ RLe(Zero, call.wi[1]) /\ RLe(call.wi[1], One)
  /\ REq(call.wi[2], RSub(One, call.wi[1]))

\* C7: for a 2-component system the two mole fractions ConvertX(0, ..) and
\* ConvertX(1, ..) sum to 1
C7_MoleFractionsSumToOne ==
  TwoComponentCall =>
    REq(RAdd(ret.val, ConvertX(1 - call.imat, 2, call.MW, call.wi)), One)

C7_Witness ==
  /\ TwoComponentCall
  /\ call.imat = 1
  /\ REq(call.wi[1], Dec(25, 2))
  /\ call.MW = Brine_MW
  /\ RLt(Zero, ret.val) /\ RLt(ret.val, One)

InUnitHalfOpen(w) == RLe(Zero, w) /\ RLt(w, One)

\* C8: Convert_w2m(0) is 0 and Convert_w2m is strictly increasing on [0, 1)
C8_MolalityStrictlyIncreasing ==
  (call.fn = "Convert_w2m" /\ InUnitHalfOpen(call.w)) =>
    /\ RSign(call.w) = 0 => RSign(ret.val) = 0
    /\ \A w2 \in FracsNot1 :
         (InUnitHalfOpen(w2) /\ RLt(call.w, w2)) => RLt(ret.val, Convert_w2m(w2))

C8_Witness ==
  /\ call.fn = "Convert_w2m"
  /\ REq(call.w, Dec(25, 2))
  /\ RLt(Zero, ret.val)
  /\ \E w2 \in FracsNot1 : InUnitHalfOpen(w2) /\ RLt(call.w, w2)

\* the result of thread t's finished call is the result of the same call run alone
ResultAsAlone(t) ==
  LET f == frame[t]
  IN  IF f.fn = "ConvertX"
        THEN REq(f.xi, ConvertX(f.imat, f.nmat, f.MW, f.wi))
        ELSE LET alone == ThermCond_aqNaCl(f.T, f.w_nacl, id_message)
             IN  REq(f.lambda, alone.val) /\ f.msgs = alone.msgs

\* C9: no step of a call writes id_message, and under every interleaving of
\* the threads' calls each call returns the result it returns run alone
C9_CallsDoNotInterfere ==
  /\ [](\A t \in Threads : frame[t].pc = "done" => ResultAsAlone(t))
  /\ [][id_message' = id_message]_vars

\* both threads inside ConvertX at once, each with a scratch buffer of its
\* own, and one of them finished
C9_Witness ==
  /\ frame[1].fn = "ConvertX" /\ frame[1].pc = "done"
  /\ frame[2].fn = "ConvertX" /\ frame[2].pc = "accum"
  /\ frame[2].i = 1
  /\ frame[2].wi # frame[1].wi
  /\ heap[frame[2].r].live

Accesses(tr) == {k \in 1..Len(tr) : tr[k][1] \in {"store", "load"}}

Mallocs(tr) == {k \in 1..Len(tr) : tr[k][1] = "malloc"}

Frees(tr) == {k \in 1..Len(tr) : tr[k][1] = "free"}

\* thread t is in ConvertX between its malloc and its free
HoldsBuffer(t) ==
  frame[t].fn = "ConvertX" /\ frame[t].pc \in {"store", "accum", "result", "free"}

\* C10: in every call of ConvertX the buffer is allocated once, with nmat
\* elements; every read and write of it is inside the live block, after the
\* malloc and before the free; it is freed exactly once before the return;
\* no block is live that is not the buffer of a call in progress
C10_ScratchBufferScoped ==
  /\ \A t \in Threads :
       frame[t].fn = "ConvertX" =>
         LET f  == frame[t]
             tr == f.trace
         IN  /\ f.pc = "malloc" => tr = << >>
             /\ f.pc # "malloc" =>
                  /\ Mallocs(tr) = {1}
                  /\ tr[1] = <<"malloc", f.r, f.nmat>>
             /\ \A k \in Accesses(tr) :
                  /\ tr[k][3]
                  /\ \A m \in Mallocs(tr) : m < k
                  /\ \A m \in Frees(tr) : k < m
             /\ HoldsBuffer(t) => (Frees(tr) = {} /\ heap[f.r].live
                                   /\ heap[f.r].size = f.nmat)
             /\ f.pc \in {"return", "done"} =>
                  /\ Frees(tr) = {Len(tr)}
                  /\ tr[Len(tr)] = <<"free", f.r, TRUE>>
                  /\ Cardinality(Accesses(tr)) = 2 * f.nmat + 1
  /\ \A a \in Addr :
       heap[a].live => \E t \in Threads : HoldsBuffer(t) /\ frame[t].r = a
  /\ \A t1, t2 \in Threads :
       (t1 # t2 /\ HoldsBuffer(t1) /\ HoldsBuffer(t2)) => frame[t1].r # frame[t2].r

\* a 2-component call returned: malloc, 2 stores, 3 loads and the free happened
C10_Witness ==
  \E t \in Threads :
    /\ frame[t].fn = "ConvertX" /\ frame[t].pc = "done"
    /\ frame[t].nmat = 2
    /\ Len(frame[t].trace) = 7
    /\ \A a \in Addr : ~heap[a].live

====
